---- MODULE Spec2Model ----
(***************************************************************************)
(* A model of beanstalkc_timeout.Connection: the non-blocking transport    *)
(* (_sendall, _read_response, _read_body), the command/response engine     *)
(* (_interact and its wrappers) and the public verbs built on them.        *)
(*                                                                         *)
(* The wire is a sequence of bytes, each byte a one-character string.  The *)
(* socket is the environment: it accepts any part of what is written,      *)
(* reports would-block, fails, and hands the reply over in chunks of any   *)
(* size.  The server is the environment too.                               *)
(***************************************************************************)
EXTENDS Integers, Sequences, FiniteSets, TLC

\* ------------------------------------------------------------------ bounds
MaxBody == 2         \* longest job body, in bytes
MaxSendIter == 3     \* iterations of _sendall's while loop that are followed

\* --------------------------------------------------------- program constants
RecvSize == 256      \* recv(256) in _read_response
DEFAULT_TIMEOUT == 2

\* ------------------------------------------------------------------- bytes
CRLF == <<"\r", "\n">>
SP == <<" ">>
Whitespace == {" ", "\t", "\n", "\r"}
Digits == <<"0", "1", "2", "3", "4", "5", "6", "7", "8", "9">>
BodyBytes == {"a", "\r", "\n"}

INSERTED == <<"I", "N", "S", "E", "R", "T", "E", "D">>
BURIED == <<"B", "U", "R", "I", "E", "D">>
JOB_TOO_BIG == <<"J", "O", "B", "_", "T", "O", "O", "_", "B", "I", "G">>
RESERVED == <<"R", "E", "S", "E", "R", "V", "E", "D">>
DEADLINE_SOON == <<"D", "E", "A", "D", "L", "I", "N", "E", "_", "S", "O", "O", "N">>
TIMED_OUT == <<"T", "I", "M", "E", "D", "_", "O", "U", "T">>
KICKED == <<"K", "I", "C", "K", "E", "D">>
FOUND == <<"F", "O", "U", "N", "D">>
NOT_FOUND == <<"N", "O", "T", "_", "F", "O", "U", "N", "D">>
OK == <<"O", "K">>
USING == <<"U", "S", "I", "N", "G">>
WATCHING == <<"W", "A", "T", "C", "H", "I", "N", "G">>
NOT_IGNORED == <<"N", "O", "T", "_", "I", "G", "N", "O", "R", "E", "D">>
PAUSED == <<"P", "A", "U", "S", "E", "D">>
DELETED == <<"D", "E", "L", "E", "T", "E", "D">>
RELEASED == <<"R", "E", "L", "E", "A", "S", "E", "D">>
TOUCHED == <<"T", "O", "U", "C", "H", "E", "D">>
UNKNOWN_COMMAND == <<"U", "N", "K", "N", "O", "W", "N", "_", "C", "O", "M", "M", "A", "N", "D">>

W_put == <<"p", "u", "t">>
W_reserve == <<"r", "e", "s", "e", "r", "v", "e">>
W_reserve_with_timeout == <<"r", "e", "s", "e", "r", "v", "e", "-", "w", "i", "t", "h", "-", "t", "i", "m", "e", "o", "u", "t">>
W_kick == <<"k", "i", "c", "k">>
W_peek == <<"p", "e", "e", "k">>
W_peek_ready == <<"p", "e", "e", "k", "-", "r", "e", "a", "d", "y">>
W_peek_delayed == <<"p", "e", "e", "k", "-", "d", "e", "l", "a", "y", "e", "d">>
W_peek_buried == <<"p", "e", "e", "k", "-", "b", "u", "r", "i", "e", "d">>
W_list_tubes == <<"l", "i", "s", "t", "-", "t", "u", "b", "e", "s">>
W_list_tube_used == <<"l", "i", "s", "t", "-", "t", "u", "b", "e", "-", "u", "s", "e", "d">>
W_use == <<"u", "s", "e">>
W_list_tubes_watched == <<"l", "i", "s", "t", "-", "t", "u", "b", "e", "s", "-", "w", "a", "t", "c", "h", "e", "d">>
W_watch == <<"w", "a", "t", "c", "h">>
W_ignore == <<"i", "g", "n", "o", "r", "e">>
W_stats == <<"s", "t", "a", "t", "s">>
W_stats_tube == <<"s", "t", "a", "t", "s", "-", "t", "u", "b", "e">>
W_pause_tube == <<"p", "a", "u", "s", "e", "-", "t", "u", "b", "e">>
W_delete == <<"d", "e", "l", "e", "t", "e">>
W_release == <<"r", "e", "l", "e", "a", "s", "e">>
W_bury == <<"b", "u", "r", "y">>
W_touch == <<"t", "o", "u", "c", "h">>
W_quit == <<"q", "u", "i", "t">>
W_stats_job == <<"s", "t", "a", "t", "s", "-", "j", "o", "b">>

\* ------------------------------------------------------- sequence helpers
Min(a, b) == IF a < b THEN a ELSE b

\* s[:n] and s[n:] of Python, for n >= 0
Take(s, n) == SubSeq(s, 1, Min(n, Len(s)))
Drop(s, n) == SubSeq(s, Min(n, Len(s)) + 1, Len(s))

IsPrefix(p, s) == Len(p) <= Len(s) /\ SubSeq(s, 1, Len(p)) = p

\* every sequence over S of length at most n
SeqsUpTo(S, n) == UNION {[1..k -> S] : k \in 0..n}

\* '%d' % n, for n >= 0
RECURSIVE FormatInt(_)
FormatInt(n) ==
    IF n < 10 THEN <<Digits[n + 1]>>
    ELSE FormatInt(n \div 10) \o <<Digits[(n % 10) + 1]>>

DigitValue(c) == CHOOSE d \in 0..9 : Digits[d + 1] = c

IsDigit(c) == \E d \in 1..10 : Digits[d] = c

\* whether int(tok) succeeds: the reply tokens carry no sign and no blank
IsInt(tok) == tok # <<>> /\ \A i \in 1..Len(tok) : IsDigit(tok[i])

\* int(tok), for a token int() accepts
RECURSIVE ParseInt(_)
ParseInt(tok) ==
    IF Len(tok) = 1 THEN DigitValue(tok[1])
    ELSE 10 * ParseInt(SubSeq(tok, 1, Len(tok) - 1)) + DigitValue(tok[Len(tok)])

\* the first index at which sep occurs in s, 0 when it does not
Find(s, sep) ==
    LET hits == {i \in 1..(Len(s) - Len(sep) + 1) :
                    SubSeq(s, i, i + Len(sep) - 1) = sep}
    IN IF hits = {} THEN 0 ELSE CHOOSE i \in hits : \A j \in hits : i <= j

\* bytearray.partition(sep): (head, sep, tail), or (s, '', '') without sep
Partition(s, sep) ==
    LET i == Find(s, sep)
    IN IF i = 0 THEN <<s, <<>>, <<>>>>
       ELSE <<SubSeq(s, 1, i - 1), sep, SubSeq(s, i + Len(sep), Len(s))>>

\* bytearray.split(): the maximal runs of non-whitespace bytes
RECURSIVE Split(_)
Split(s) ==
    IF s = <<>> THEN <<>>
    ELSE IF s[1] \in Whitespace THEN Split(Tail(s))
    ELSE LET ends == {i \in 1..Len(s) : s[i] \in Whitespace}
             n == IF ends = {} THEN Len(s)
                  ELSE (CHOOSE i \in ends : \A j \in ends : i <= j) - 1
         IN <<SubSeq(s, 1, n)>> \o Split(SubSeq(s, n + 1, Len(s)))

\* ------------------------------------------------------------ the verbs
\* A call of a public method: its name, its integer arguments in the order
\* the command formats them, the tube name and the job body.  reserve()
\* has args <<>> (timeout None) and reserve(t) has args <<t>>.  The priority
\* of release and bury is held as its decimal digits (pri), because the
\* default priority, 2**31, is more than the integers of the model hold.
Verb(name, args, tube, body) ==
    [name |-> name, args |-> args, tube |-> tube, body |-> body, pri |-> <<>>]

VerbPri(name, args, pri) ==
    [name |-> name, args |-> args, tube |-> <<>>, body |-> <<>>, pri |-> pri]

Line(words) == words \o CRLF

\* the command each public method formats
Command(v) ==
    CASE v.name = "close" -> Line(W_quit)
      [] v.name = "put" ->
            Line(W_put \o SP \o FormatInt(v.args[1]) \o SP \o FormatInt(v.args[2])
                 \o SP \o FormatInt(v.args[3]) \o SP \o FormatInt(Len(v.body)))
            \o Line(v.body)
      [] v.name = "reserve" ->
            IF v.args # <<>>
            THEN Line(W_reserve_with_timeout \o SP \o FormatInt(v.args[1]))
            ELSE Line(W_reserve)
      [] v.name = "kick" -> Line(W_kick \o SP \o FormatInt(v.args[1]))
      [] v.name = "peek" -> Line(W_peek \o SP \o FormatInt(v.args[1]))
      [] v.name = "peek_ready" -> Line(W_peek_ready)
      [] v.name = "peek_delayed" -> Line(W_peek_delayed)
      [] v.name = "peek_buried" -> Line(W_peek_buried)
      [] v.name = "tubes" -> Line(W_list_tubes)
      [] v.name = "using" -> Line(W_list_tube_used)
      [] v.name = "use" -> Line(W_use \o SP \o v.tube)
      [] v.name = "watching" -> Line(W_list_tubes_watched)
      [] v.name = "watch" -> Line(W_watch \o SP \o v.tube)
      [] v.name = "ignore" -> Line(W_ignore \o SP \o v.tube)
      [] v.name = "stats" -> Line(W_stats)
      [] v.name = "stats_tube" -> Line(W_stats_tube \o SP \o v.tube)
      [] v.name = "pause_tube" ->
            Line(W_pause_tube \o SP \o v.tube \o SP \o FormatInt(v.args[1]))
      [] v.name = "delete" -> Line(W_delete \o SP \o FormatInt(v.args[1]))
      [] v.name = "release" ->
            Line(W_release \o SP \o FormatInt(v.args[1]) \o SP
                 \o v.pri \o SP \o FormatInt(v.args[2]))
      [] v.name = "bury" ->
            Line(W_bury \o SP \o FormatInt(v.args[1]) \o SP \o v.pri)
      [] v.name = "touch" -> Line(W_touch \o SP \o FormatInt(v.args[1]))
      [] v.name = "stats_job" -> Line(W_stats_job \o SP \o FormatInt(v.args[1]))

\* expected_ok of each public method
OkStatuses(v) ==
    CASE v.name = "put" -> {INSERTED, BURIED}
      [] v.name = "reserve" -> {RESERVED}
      [] v.name = "kick" -> {KICKED}
      [] v.name \in {"peek", "peek_ready", "peek_delayed", "peek_buried"} -> {FOUND}
      [] v.name \in {"tubes", "watching", "stats", "stats_tube", "stats_job"} -> {OK}
      [] v.name \in {"using", "use"} -> {USING}
      [] v.name \in {"watch", "ignore"} -> {WATCHING}
      [] v.name = "pause_tube" -> {PAUSED}
      [] v.name = "delete" -> {DELETED}
      [] v.name = "release" -> {RELEASED, BURIED}
      [] v.name = "bury" -> {BURIED}
      [] v.name = "touch" -> {TOUCHED}

\* expected_err of each public method
ErrStatuses(v) ==
    CASE v.name = "put" -> {JOB_TOO_BIG}
      [] v.name = "reserve" -> {DEADLINE_SOON, TIMED_OUT}
      [] v.name \in {"peek", "peek_ready", "peek_delayed", "peek_buried"} -> {NOT_FOUND}
      [] v.name = "ignore" -> {NOT_IGNORED}
      [] v.name \in {"stats_tube", "pause_tube", "delete", "release", "bury",
                     "touch", "stats_job"} -> {NOT_FOUND}
      [] OTHER -> {}

\* which engine helper the method goes through:
\*   "interact" (_interact, result dropped), "value" (_interact_value),
\*   "int" (int(_interact_value)), "job" (_interact_job), "yaml" (_interact_yaml)
Helper(v) ==
    CASE v.name \in {"put", "kick", "watch", "ignore"} -> "int"
      [] v.name \in {"using", "use"} -> "value"
      [] v.name \in {"reserve", "peek", "peek_ready", "peek_delayed", "peek_buried"} -> "job"
      [] v.name \in {"tubes", "watching", "stats", "stats_tube", "stats_job"} -> "yaml"
      [] OTHER -> "interact"

\* the reserved flag the method gives the Job it builds
ReservedFlag(v) == v.name = "reserve"

\* the timeout the method hands to _read_response through _interact
ReadTimeoutOf(v, timeout) ==
    IF v.name = "reserve" /\ v.args # <<>> THEN v.args[1] + timeout ELSE timeout

\* ------------------------------------------------------------- outcomes
NoVal == [t |-> "none", n |-> 0, s |-> <<>>, reserved |-> FALSE]
None == [t |-> "None", n |-> 0, s |-> <<>>, reserved |-> FALSE]
IntVal(n) == [t |-> "int", n |-> n, s |-> <<>>, reserved |-> FALSE]
StrVal(s) == [t |-> "str", n |-> 0, s |-> s, reserved |-> FALSE]
YamlVal(s) == [t |-> "yaml", n |-> 0, s |-> s, reserved |-> FALSE]
Job(jid, body, reserved) == [t |-> "job", n |-> jid, s |-> body, reserved |-> reserved]

NoOutcome ==
    [kind |-> "none", exc |-> "", verb |-> <<>>, status |-> <<>>,
     results |-> <<>>, val |-> NoVal]
Return(val) ==
    [kind |-> "return", exc |-> "", verb |-> <<>>, status |-> <<>>,
     results |-> <<>>, val |-> val]
Raise(exc) ==
    [kind |-> "raise", exc |-> exc, verb |-> <<>>, status |-> <<>>,
     results |-> <<>>, val |-> NoVal]
RaiseWith(exc, verb, status, results) ==
    [kind |-> "raise", exc |-> exc, verb |-> verb, status |-> status,
     results |-> results, val |-> NoVal]
Results(results) ==
    [kind |-> "results", exc |-> "", verb |-> <<>>, status |-> <<>>,
     results |-> results, val |-> NoVal]

\* ----------------------------------------------------------- the engine
\* _interact without its elif: a status of the failure set is reported as
\* unexpected
InteractNoCommandFailed(command, status, results, expected_ok, expected_err) ==
    IF status \in expected_ok THEN Results(results)
    ELSE RaiseWith("UnexpectedResponse", Split(command)[1], status, results)

\* _interact after _read_response has returned (status, results)
Interact(command, status, results, expected_ok, expected_err) ==
    IF status \in expected_ok THEN Results(results)
    ELSE IF status \in expected_err
    THEN RaiseWith("CommandFailed", Split(command)[1], status, results)
    ELSE RaiseWith("UnexpectedResponse", Split(command)[1], status, results)

\* _read_response once a chunk has been received: the buffer is extended
\* and partitioned at the first terminator
ReadLine(b, chunk) ==
    LET p == Partition(b \o chunk, CRLF)
    IN [line |-> p[1], buf |-> p[3]]

\* _sendall's loop body after a send that accepted k bytes
SendStep(s, r, k) == [sent |-> s + k, remaining |-> r - (s + k)]

\* _read_body that cuts the body off the buffer and leaves its terminator
BodyOfKeepsTerminator(b, n) == [body |-> Take(b, n), buf |-> Drop(b, n)]

\* _read_body once the buffer holds the body and its terminator
BodyOf(b, n) == [body |-> Take(b, n), buf |-> Drop(b, n + 2)]

\* what _read_body still asks of the socket
BodyRemaining(b, n) == (n + 2) - Len(b)

NeedBody(n) ==
    [kind |-> "body", exc |-> "", verb |-> <<>>, status |-> <<>>,
     results |-> <<>>, val |-> IntVal(n)]

\* what the helper does with the results _interact returned, up to the
\* point where it reads a body or is done
HelperStep(v, results) ==
    CASE Helper(v) = "interact" -> Return(None)
      [] Helper(v) = "value" ->
            IF results = <<>> THEN Raise("IndexError")
            ELSE Return(StrVal(results[1]))
      [] Helper(v) = "int" ->
            IF results = <<>> THEN Raise("IndexError")
            ELSE IF ~IsInt(results[1]) THEN Raise("ValueError")
            ELSE Return(IntVal(ParseInt(results[1])))
      [] Helper(v) = "job" ->
            IF Len(results) # 2 \/ ~IsInt(results[2]) THEN Raise("ValueError")
            ELSE NeedBody(ParseInt(results[2]))
      [] Helper(v) = "yaml" ->
            IF Len(results) # 1 \/ ~IsInt(results[1]) THEN Raise("ValueError")
            ELSE NeedBody(ParseInt(results[1]))

\* what the helper returns once _read_body has returned the body
BodyStep(v, results, body) ==
    IF Helper(v) = "job"
    THEN IF ~IsInt(results[1]) THEN Raise("ValueError")
         ELSE Return(Job(ParseInt(results[1]), body, ReservedFlag(v)))
    ELSE Return(YamlVal(body))

IsPeek(v) == v.name \in {"peek", "peek_ready", "peek_delayed", "peek_buried"}

\* the except clauses with a bare except: peek*, reserve and ignore catch
\* every exception
TranslateBareExcept(v, o) ==
    IF o.kind = "raise"
    THEN CASE IsPeek(v) -> Return(None)
           [] v.name = "reserve" ->
                IF o.status = TIMED_OUT THEN Return(None)
                ELSE IF o.status = DEADLINE_SOON
                THEN RaiseWith("DeadlineSoon", <<>>, <<>>, o.results)
                ELSE Return(None)
           [] v.name = "ignore" -> Return(IntVal(1))
           [] OTHER -> o
    ELSE o

\* the except clause of _interact_peek around every verb: CommandFailed
\* becomes None everywhere
TranslateSwallowsAll(v, o) ==
    IF o.kind = "raise" /\ o.exc = "CommandFailed" THEN Return(None) ELSE o

\* the except clauses of _interact_peek, reserve, ignore and close; close
\* catches socket.error, of which socket.timeout is a subclass
Translate(v, o) ==
    IF v.name = "close"
    THEN IF o.kind = "raise" /\ o.exc \in {"socket.error", "Timeout"}
         THEN Return(None) ELSE o
    ELSE IF o.kind = "raise" /\ o.exc = "CommandFailed"
    THEN CASE IsPeek(v) -> Return(None)
           [] v.name = "reserve" ->
                IF o.status = TIMED_OUT THEN Return(None)
                ELSE IF o.status = DEADLINE_SOON
                THEN RaiseWith("DeadlineSoon", <<>>, <<>>, o.results)
                ELSE Return(None)
           [] v.name = "ignore" -> Return(IntVal(1))
           [] OTHER -> o
    ELSE o

\* ------------------------------------------------------------ the Job class
\* '%d' % DEFAULT_PRIORITY, which is 2**31
DEFAULT_PRIORITY == <<"2", "1", "4", "7", "4", "8", "3", "6", "4", "8">>

W_pri == <<"p", "r", "i", ":">>
DocStart == <<"-", "-", "-", "\n">>

\* the document beanstalkd answers stats-job with, cut down to the one key
\* that Job._priority reads
StatsDoc(p) == DocStart \o W_pri \o SP \o p \o <<"\n">>

\* yaml.load of a body and ['pri'] of the outcome: the digits of the priority
\* when the body is a mapping with the key pri, <<>> when it is not a mapping
\* (a scalar such as '1' loads as an int)
YamlPri(s) ==
    LET t == IF Len(s) > 0 /\ s[Len(s)] = "\n" THEN Take(s, Len(s) - 1) ELSE s
        k == Len(DocStart \o W_pri \o SP)
    IN IF Len(t) > k /\ Take(t, k) = DocStart \o W_pri \o SP /\ IsInt(Drop(t, k))
       THEN Drop(t, k)
       ELSE <<>>

\* Job._priority, given what self.stats() returned
PriorityOf(stats) == IF YamlPri(stats) # <<>> THEN YamlPri(stats) ELSE DEFAULT_PRIORITY

\* 'priority or self._priority()': whether the left operand is taken; None
\* (no digits) and 0 are false
Truthy(pri) == pri # <<>> /\ pri # <<"0">>

\* the call of Connection that a method of Job makes with a priority
ConnVerb(name, jid, pri) ==
    CASE name = "delete" -> Verb("delete", <<jid>>, <<>>, <<>>)
      [] name = "touch" -> Verb("touch", <<jid>>, <<>>, <<>>)
      [] name = "release" -> VerbPri("release", <<jid, 0>>, pri)
      [] name = "bury" -> VerbPri("bury", <<jid>>, pri)
      [] name = "stats" -> Verb("stats_job", <<jid>>, <<>>, <<>>)

\* ---------------------------------------------------------------- state
VARIABLES
    pc,         \* where the client is: "idle", "send" (line 74), "sendloop"
                \* (line 82), "read_response" (line 108), "read_body" (line 126)
    verb,       \* the public method being executed
    calls,      \* public methods called so far
    outcome,    \* how the last public method ended
    data,       \* _sendall: the bytes to send
    sent,       \* _sendall: its local sent
    remaining,  \* _sendall: its local remaining
    iters,      \* _sendall: iterations of its loop so far
    acc,        \* the bytes the socket accepted from this _sendall
    buf,        \* self.buf
    resp,       \* what _read_response returned, and self.buf at that point
    line_in,    \* self.buf at the entry of _read_response, then every chunk it received
    size,       \* _read_body: its argument
    got,        \* what _read_body returned, and self.buf at that point
    body_in,    \* self.buf at the entry of _read_body, then every chunk it received
    iact,       \* how _interact ended (results returned or exception raised)
    sock,       \* "open", or "eof" once a recv returned no bytes
    srv_in,     \* bytes the socket accepted that the server has not yet interpreted
    reply,      \* the reply the server sent since the public method was called
    rx,         \* bytes the server sent that the client has not yet received
                \* (on their way or waiting in the socket)
    jobs,       \* the server's jobs: a set of [id, body]
    next_id,    \* the id the server gives the next job
    due,        \* when the server answers a waiting reserve-with-timeout (-1: none waits)
    clocked,    \* whether the behaviour follows the clock; when it does not, a
                \* wait may give up at any step
    now,        \* the clock
    deadline,   \* the clock value at which the select the client waits in gives up
    t0,         \* the clock value at which the public method was called
    job,        \* the Job object the caller holds: its jid and its reserved flag
    op,         \* the method of that Job being executed, its priority argument
                \* (<<>>: none given) and how far it is
    jres,       \* how the last method of the Job ended
    nops        \* methods of the Job called so far

sendVars == <<data, sent, remaining, iters, acc>>
readVars == <<buf, resp, line_in, size, got, body_in, iact>>
envVars == <<jobs, next_id, due, clocked>>
timeVars == <<now, deadline, t0>>
jobVars == <<job, op, jres, nops>>
vars == <<pc, verb, calls, outcome, sendVars, readVars, sock, srv_in, reply, rx,
          envVars, timeVars, jobVars>>

\* self.timeout of the connection
timeout == DEFAULT_TIMEOUT

NoResp == [set |-> FALSE, status |-> <<>>, results |-> <<>>, buf |-> <<>>]
NoGot == [set |-> FALSE, body |-> <<>>, buf |-> <<>>]
NoVerb == Verb("", <<>>, <<>>, <<>>)
NoJob == [jid |-> 0, reserved |-> FALSE]
NoOp == [name |-> "", pri |-> <<>>, phase |-> ""]

\* Connection.__init__: an empty buffer, a connected socket
InitConn ==
    /\ pc = "idle" /\ verb = NoVerb /\ calls = 0 /\ outcome = NoOutcome
    /\ data = <<>> /\ sent = 0 /\ remaining = 0 /\ iters = 0 /\ acc = <<>>
    /\ buf = <<>> /\ resp = NoResp /\ line_in = <<>>
    /\ size = 0 /\ got = NoGot /\ body_in = <<>> /\ iact = NoOutcome
    /\ sock = "open" /\ srv_in = <<>> /\ reply = <<>> /\ rx = <<>>
    /\ due = -1
    /\ now = 0 /\ deadline = 0 /\ t0 = 0
    /\ job = NoJob /\ op = NoOp /\ jres = NoOutcome /\ nops = 0

Init == InitConn /\ jobs = {} /\ next_id = 1 /\ clocked = FALSE

\* ------------------------------------------------------------- the calls
Bodies == SeqsUpTo(BodyBytes, MaxBody)
TubeName == <<"t">>

\* one call of every public method, put with every body, reserve without a
\* timeout and with the timeouts 0 and 1
Verbs ==
    {Verb("put", <<1, 0, 1>>, <<>>, b) : b \in Bodies}
    \cup {Verb("reserve", a, <<>>, <<>>) : a \in {<<>>, <<0>>, <<1>>}}
    \cup {Verb(n, <<1>>, <<>>, <<>>) :
            n \in {"kick", "peek", "delete", "touch", "stats_job"}}
    \cup {Verb(n, <<>>, <<>>, <<>>) :
            n \in {"peek_ready", "peek_delayed", "peek_buried", "tubes", "using",
                   "watching", "stats"}}
    \cup {Verb(n, <<>>, TubeName, <<>>) :
            n \in {"use", "watch", "ignore", "stats_tube"}}
    \cup {Verb("pause_tube", <<1>>, TubeName, <<>>),
          VerbPri("release", <<1, 0>>, <<"1">>),
          VerbPri("bury", <<1>>, <<"1">>)}

\* a public method is called: it formats its command and enters _sendall
Call(v) ==
    /\ pc = "idle"
    /\ pc' = "send" /\ verb' = v /\ calls' = calls + 1 /\ outcome' = NoOutcome
    /\ data' = Command(v) /\ sent' = 0 /\ remaining' = 0 /\ iters' = 0 /\ acc' = <<>>
    /\ resp' = NoResp /\ line_in' = <<>> /\ size' = 0 /\ got' = NoGot
    /\ body_in' = <<>> /\ iact' = NoOutcome
    /\ t0' = now
    /\ reply' = <<>>
    /\ UNCHANGED <<buf, sock, srv_in, rx, envVars, now, deadline>>

\* the public method ends with outcome o, which is what its except clauses
\* (Translate) make of how its body ended
Finish(o) == pc' = "idle" /\ outcome' = o

\* _sendall is left: its locals are gone
LeaveSendall == sent' = 0 /\ remaining' = 0 /\ iters' = 0

\* ---------------------------------------------------------------- _sendall
\* a select gives up once its timeout has passed
Expired == clocked => now >= deadline

\* _sendall has returned: _interact goes on to _read_response(timeout)
EnterReadResponse ==
    /\ pc' = "read_response"
    /\ line_in' = buf
    /\ deadline' = now + ReadTimeoutOf(verb, timeout)

\* _sendall has returned to its caller: close() closes the socket (line 68)
\* and ends, _interact goes on to _read_response
SendallReturns ==
    IF verb.name = "close"
    THEN /\ sock' = "closed" /\ Finish(Translate(verb, Return(None)))
         /\ UNCHANGED <<line_in, deadline>>
    ELSE EnterReadResponse /\ UNCHANGED <<sock, outcome>>

\* line 74: the first send accepts k bytes (k >= 1), or reports EAGAIN (k = 0)
SendFirst(k) ==
    /\ pc = "send" /\ k \in 0..Len(data)
    /\ acc' = Take(data, k) /\ srv_in' = srv_in \o Take(data, k)
    /\ IF Len(data) - k = 0
       THEN SendallReturns /\ LeaveSendall
       ELSE /\ pc' = "sendloop" /\ deadline' = now + timeout /\ line_in' = line_in
            /\ sent' = k /\ remaining' = Len(data) - k /\ iters' = iters
            /\ UNCHANGED <<sock, outcome>>
    /\ UNCHANGED <<jobVars, verb, calls, data, buf, resp, size, got, body_in,
                   iact, reply, rx, envVars, now, t0>>

\* line 80: the first send fails with another error, which propagates
SendFirstError ==
    /\ pc = "send"
    /\ Finish(Translate(verb, Raise("socket.error"))) /\ LeaveSendall
    /\ UNCHANGED <<jobVars, verb, calls, data, acc, readVars, sock, srv_in, reply, rx, envVars, timeVars>>

\* lines 83-85: the socket does not become writable in time
SendSelectTimeout ==
    /\ pc = "sendloop" /\ Expired
    /\ Finish(Translate(verb, Raise("Timeout"))) /\ LeaveSendall
    /\ UNCHANGED <<jobVars, verb, calls, data, acc, readVars, sock, srv_in, reply, rx, envVars, timeVars>>

\* lines 87 and 93: the socket is writable and accepts k bytes of data[sent:]
\* (k >= 1, or 0 when data[sent:] is empty)
SendRetry(k) ==
    /\ pc = "sendloop" /\ iters < MaxSendIter
    /\ k \in 0..(Len(data) - sent)
    /\ (k = 0) = (sent = Len(data))
    /\ LET n == SendStep(sent, remaining, k)
       IN IF n.remaining = 0
          THEN SendallReturns /\ LeaveSendall
          ELSE /\ pc' = "sendloop" /\ deadline' = now + timeout /\ line_in' = line_in
               /\ sent' = n.sent /\ remaining' = n.remaining /\ iters' = iters + 1
               /\ UNCHANGED <<sock, outcome>>
    /\ acc' = acc \o SubSeq(data, sent + 1, sent + k)
    /\ srv_in' = srv_in \o SubSeq(data, sent + 1, sent + k)
    /\ UNCHANGED <<jobVars, verb, calls, data, buf, resp, size, got, body_in,
                   iact, reply, rx, envVars, now, t0>>

\* lines 88-91: the send in the loop reports EAGAIN, which is ignored
SendRetryAgain ==
    /\ pc = "sendloop" /\ iters < MaxSendIter
    /\ sent < Len(data)
    /\ iters' = iters + 1
    /\ deadline' = now + timeout
    /\ UNCHANGED <<jobVars, pc, verb, calls, outcome, data, sent, remaining, acc, readVars,
                   sock, srv_in, reply, rx, envVars, now, t0>>

\* line 91: the send in the loop fails with another error, which propagates
SendRetryError ==
    /\ pc = "sendloop"
    /\ Finish(Translate(verb, Raise("socket.error"))) /\ LeaveSendall
    /\ UNCHANGED <<jobVars, verb, calls, data, acc, readVars, sock, srv_in, reply, rx, envVars, timeVars>>

\* ---------------------------------------------------------- _read_response
\* lines 109-111: nothing arrives in time
ReadResponseTimeout ==
    /\ pc = "read_response" /\ sock = "open" /\ Expired
    /\ Finish(Translate(verb, Raise("Timeout")))
    /\ UNCHANGED <<jobVars, verb, calls, sendVars, readVars, sock, srv_in, reply, rx, envVars, timeVars>>

\* lines 112-115: recv returns no bytes, the peer has closed
ReadResponseClosed ==
    /\ pc = "read_response" /\ rx = <<>>
    /\ sock' = "eof"
    /\ Finish(Translate(verb, Raise("ConnectionClosed")))
    /\ UNCHANGED <<jobVars, verb, calls, sendVars, readVars, srv_in, reply, rx, envVars, timeVars>>

\* lines 112-121, then _interact's lines 100-105 and the helper's code up to
\* its _read_body: recv returns the next n bytes
ReadResponseChunk(n) ==
    /\ pc = "read_response" /\ n \in 1..Min(RecvSize, Len(rx))
    /\ LET chunk == Take(rx, n)
           r == ReadLine(buf, chunk)
           response == Split(r.line)
           o == Interact(data, response[1], Tail(response),
                         OkStatuses(verb), ErrStatuses(verb))
           h == HelperStep(verb, Tail(response))
       IN /\ rx' = Drop(rx, n)
          /\ buf' = r.buf
          /\ line_in' = line_in \o chunk
          /\ IF r.line = <<>>
             THEN /\ deadline' = now + ReadTimeoutOf(verb, timeout)
                  /\ UNCHANGED <<pc, outcome, resp, iact, size, body_in>>
             ELSE IF response = <<>>
             THEN /\ Finish(Translate(verb, Raise("IndexError")))
                  /\ UNCHANGED <<resp, iact, size, body_in, deadline>>
             ELSE /\ resp' = [set |-> TRUE, status |-> response[1],
                              results |-> Tail(response), buf |-> r.buf]
                  /\ iact' = o
                  /\ IF o.kind = "results" /\ h.kind = "body"
                     THEN /\ pc' = "read_body" /\ size' = h.val.n
                          /\ body_in' = r.buf
                          /\ deadline' = now + timeout
                          /\ UNCHANGED outcome
                     ELSE /\ Finish(Translate(verb, IF o.kind = "results" THEN h ELSE o))
                          /\ UNCHANGED <<size, body_in, deadline>>
    /\ UNCHANGED <<jobVars, verb, calls, sendVars, got, sock, srv_in, reply, envVars, now, t0>>

\* -------------------------------------------------------------- _read_body
\* lines 127-129: nothing arrives in time
ReadBodyTimeout ==
    /\ pc = "read_body" /\ BodyRemaining(buf, size) > 0
    /\ sock = "open" /\ Expired
    /\ Finish(Translate(verb, Raise("Timeout")))
    /\ UNCHANGED <<jobVars, verb, calls, sendVars, readVars, sock, srv_in, reply, rx, envVars, timeVars>>

\* lines 130-133: recv returns no bytes, the peer has closed
ReadBodyClosed ==
    /\ pc = "read_body" /\ BodyRemaining(buf, size) > 0 /\ rx = <<>>
    /\ sock' = "eof"
    /\ Finish(Translate(verb, Raise("ConnectionClosed")))
    /\ UNCHANGED <<jobVars, verb, calls, sendVars, readVars, srv_in, reply, rx, envVars, timeVars>>

\* lines 130-135: recv(remaining) returns the next n bytes
ReadBodyChunk(n) ==
    /\ pc = "read_body"
    /\ n \in 1..Min(BodyRemaining(buf, size), Len(rx))
    /\ buf' = buf \o Take(rx, n)
    /\ body_in' = body_in \o Take(rx, n)
    /\ rx' = Drop(rx, n)
    /\ deadline' = now + timeout
    /\ UNCHANGED <<jobVars, pc, verb, calls, outcome, sendVars, resp, line_in, size, got, iact,
                   sock, srv_in, reply, envVars, now, t0>>

\* lines 136-138, then the helper's code after its _read_body
ReadBodyReturn ==
    /\ pc = "read_body" /\ BodyRemaining(buf, size) <= 0
    /\ LET b == BodyOf(buf, size)
       IN /\ buf' = b.buf
          /\ got' = [set |-> TRUE, body |-> b.body, buf |-> b.buf]
          /\ Finish(Translate(verb, BodyStep(verb, resp.results, b.body)))
    /\ UNCHANGED <<jobVars, verb, calls, sendVars, resp, line_in, size, body_in, iact,
                   sock, srv_in, reply, rx, envVars, timeVars>>

\* --------------------------------------------------------------- the server
\* the length of the first complete command at the front of s (a line, and
\* for put the body and its terminator); 0 when none is complete
UnitLen(s) ==
    LET i == Find(s, CRLF)
        toks == Split(SubSeq(s, 1, i - 1))
        total == i + 1 + ParseInt(toks[5]) + 2
    IN IF i = 0 THEN 0
       ELSE IF toks # <<>> /\ toks[1] = W_put /\ Len(toks) = 5 /\ IsInt(toks[5])
       THEN IF Len(s) >= total THEN total ELSE 0
       ELSE i + 1

Statuses ==
    {INSERTED, BURIED, JOB_TOO_BIG, RESERVED, DEADLINE_SOON, TIMED_OUT, KICKED,
     FOUND, NOT_FOUND, OK, USING, WATCHING, NOT_IGNORED, PAUSED, DELETED,
     RELEASED, TOUCHED, UNKNOWN_COMMAND}

ReplyIds == {1, 12}

\* replies the server is cut off in, after the header line
CutReplies ==
    {Line(st \o SP \o FormatInt(12) \o SP \o FormatInt(n)) :
        st \in {RESERVED, FOUND}, n \in 1..MaxBody}
    \cup {Line(OK \o SP \o FormatInt(n)) : n \in 1..MaxBody}

\* every reply of the protocol: a bare status, a status with one argument,
\* and a status with a job or a document
AllReplies ==
    {Line(st) : st \in Statuses}
    \cup {Line(st \o SP \o FormatInt(n)) :
            st \in {INSERTED, BURIED, KICKED, WATCHING}, n \in ReplyIds}
    \cup {Line(USING \o SP \o TubeName)}
    \cup {Line(st \o SP \o FormatInt(n) \o SP \o FormatInt(Len(b))) \o Line(b) :
            st \in {RESERVED, FOUND}, n \in ReplyIds, b \in Bodies}
    \cup {Line(OK \o SP \o FormatInt(Len(b))) \o Line(b) : b \in Bodies}
    \cup CutReplies

\* The server answers the command at the front of its input with any reply.
\* The reply is put on the wire when the client is in a read: nothing else
\* in the client looks at the incoming bytes, so a reply sent earlier is a
\* reply sent then.
ServerReply(r) ==
    /\ pc \in {"read_response", "read_body"}
    /\ UnitLen(srv_in) > 0 /\ sock = "open"
    /\ srv_in' = Drop(srv_in, UnitLen(srv_in))
    /\ rx' = rx \o r /\ reply' = r
    /\ UNCHANGED <<jobVars, pc, verb, calls, outcome, sendVars, readVars, sock, envVars, timeVars>>

\* ------------------------------------------------------- the specification
\* Spec follows one public method, any of them, on a fresh connection, from
\* its call to its end, against a server that answers with any reply.
Next ==
    \/ \E v \in Verbs : calls = 0 /\ Call(v) /\ UNCHANGED jobVars
    \/ \E k \in 0..Len(data) : SendFirst(k)
    \/ SendFirstError
    \/ SendSelectTimeout
    \/ \E k \in 0..Len(data) : SendRetry(k)
    \/ SendRetryAgain
    \/ SendRetryError
    \/ ReadResponseTimeout
    \/ ReadResponseClosed
    \/ \E n \in 1..Len(rx) : ReadResponseChunk(n)
    \/ ReadBodyTimeout
    \/ ReadBodyClosed
    \/ \E n \in 1..Len(rx) : ReadBodyChunk(n)
    \/ ReadBodyReturn
    \/ \E r \in AllReplies : ServerReply(r)

Spec == Init /\ [][Next]_vars

\* A server that keeps the jobs it is given: put stores the body under the
\* next id and answers INSERTED <id>, peek <id> answers FOUND <id> <size>
\* and the body of that job or NOT_FOUND, anything else UNKNOWN_COMMAND.
StoreReply(toks, js, id) ==
    IF toks # <<>> /\ toks[1] = W_put /\ Len(toks) = 5 /\ IsInt(toks[5])
    THEN Line(INSERTED \o SP \o FormatInt(id))
    ELSE IF Len(toks) = 2 /\ toks[1] = W_peek /\ IsInt(toks[2])
    THEN IF \E j \in js : j.id = ParseInt(toks[2])
         THEN LET j == CHOOSE j \in js : j.id = ParseInt(toks[2])
              IN Line(FOUND \o SP \o FormatInt(j.id) \o SP \o FormatInt(Len(j.body)))
                    \o Line(j.body)
         ELSE Line(NOT_FOUND)
    ELSE Line(UNKNOWN_COMMAND)

ServerStore ==
    /\ pc \in {"read_response", "read_body"}
    /\ UnitLen(srv_in) > 0 /\ sock = "open"
    /\ LET i == Find(srv_in, CRLF)
           toks == Split(SubSeq(srv_in, 1, i - 1))
           isPut == toks # <<>> /\ toks[1] = W_put /\ Len(toks) = 5 /\ IsInt(toks[5])
           r == StoreReply(toks, jobs, next_id)
       IN /\ rx' = rx \o r /\ reply' = r
          /\ IF isPut
             THEN /\ jobs' = jobs \cup
                        {[id |-> next_id,
                          body |-> SubSeq(srv_in, i + 2, i + 1 + ParseInt(toks[5]))]}
                  /\ next_id' = next_id + 1
             ELSE UNCHANGED <<jobs, next_id>>
    /\ srv_in' = Drop(srv_in, UnitLen(srv_in))
    /\ UNCHANGED <<jobVars, pc, verb, calls, outcome, sendVars, readVars, sock, due, clocked,
                   timeVars>>

\* SpecStore follows put(B), for every body B, and the peek(id) of the id
\* that put returned, on a fresh connection to that server. The server puts
\* the whole of an answer on the wire at once, so no recv of _read_body
\* finds the connection closed.
InitStore == InitConn /\ jobs = {} /\ next_id \in ReplyIds /\ clocked = FALSE

NextStore ==
    \/ \E b \in Bodies :
            /\ calls = 0 /\ Call(Verb("put", <<1, 0, 1>>, <<>>, b))
            /\ UNCHANGED jobVars
    \/ \E id \in ReplyIds :
            /\ calls = 1 /\ outcome = Return(IntVal(id))
            /\ Call(Verb("peek", <<id>>, <<>>, <<>>))
            /\ UNCHANGED jobVars
    \/ \E k \in 0..Len(data) : SendFirst(k)
    \/ SendFirstError
    \/ SendSelectTimeout
    \/ \E k \in 0..Len(data) : SendRetry(k)
    \/ SendRetryAgain
    \/ SendRetryError
    \/ ReadResponseTimeout
    \/ ReadResponseClosed
    \/ \E n \in 1..Len(rx) : ReadResponseChunk(n)
    \/ ReadBodyTimeout
    \/ \E n \in 1..Len(rx) : ReadBodyChunk(n)
    \/ ReadBodyReturn
    \/ ServerStore

SpecStore == InitStore /\ [][NextStore]_vars

\* A server whose tubes are empty: it takes 'reserve-with-timeout <t>' when
\* the client has sent it and answers TIMED_OUT t time units later, or up to
\* MaxLatency later than that; MaxLatency is less than the connection's
\* timeout.
MaxWait == 2
MaxLatency == 1

ServerTakesReserve ==
    /\ pc = "read_response" /\ UnitLen(srv_in) > 0 /\ due = -1
    /\ LET toks == Split(SubSeq(srv_in, 1, Find(srv_in, CRLF) - 1))
       IN /\ Len(toks) = 2 /\ toks[1] = W_reserve_with_timeout /\ IsInt(toks[2])
          /\ due' = now + ParseInt(toks[2])
    /\ srv_in' = Drop(srv_in, UnitLen(srv_in))
    /\ UNCHANGED <<jobVars, pc, verb, calls, outcome, sendVars, readVars, sock, reply, rx,
                   jobs, next_id, clocked, timeVars>>

ServerTimedOut ==
    /\ due >= 0 /\ now >= due
    /\ rx' = rx \o Line(TIMED_OUT) /\ reply' = Line(TIMED_OUT)
    /\ due' = -1
    /\ UNCHANGED <<jobVars, pc, verb, calls, outcome, sendVars, readVars, sock, srv_in,
                   jobs, next_id, clocked, timeVars>>

\* Time passes while the client waits for the answer: not beyond the moment
\* its select gives up, not while bytes wait in the socket, not while the
\* command it sent waits for the server, and not beyond the latest moment
\* of the server's answer.
Tick ==
    /\ pc = "read_response" /\ rx = <<>> /\ now < deadline
    /\ ~(UnitLen(srv_in) > 0 /\ due = -1)
    /\ due >= 0 => now < due + MaxLatency
    /\ now' = now + 1
    /\ UNCHANGED <<jobVars, pc, verb, calls, outcome, sendVars, readVars, sock, srv_in,
                   reply, rx, envVars, deadline, t0>>

\* SpecTimed follows reserve(timeout = t) on a fresh connection to that
\* server, with the clock: the socket takes bytes without a wait and stays
\* open, and a select gives up when its timeout has passed.
InitTimed == InitConn /\ jobs = {} /\ next_id = 1 /\ clocked = TRUE

NextTimed ==
    \/ \E t \in 0..MaxWait :
            /\ calls = 0 /\ Call(Verb("reserve", <<t>>, <<>>, <<>>))
            /\ UNCHANGED jobVars
    \/ \E k \in 0..Len(data) : SendFirst(k)
    \/ \E k \in 0..Len(data) : SendRetry(k)
    \/ SendRetryAgain
    \/ ReadResponseTimeout
    \/ \E n \in 1..Len(rx) : ReadResponseChunk(n)
    \/ ServerTakesReserve
    \/ ServerTimedOut
    \/ Tick

SpecTimed == InitTimed /\ [][NextTimed]_vars

\* ------------------------------------------------- the methods of a Job
MaxOps == 2
connVars == <<pc, verb, calls, outcome, sendVars, readVars, sock, srv_in, reply, rx,
              envVars, timeVars>>

\* reserve() or one of peek(1), peek_ready(), peek_delayed(), peek_buried()
\* is called to get the Job
Acquire(v) ==
    /\ calls = 0 /\ job = NoJob /\ op = NoOp
    /\ Call(v)
    /\ op' = [name |-> "acquire", pri |-> <<>>, phase |-> "cmd"]
    /\ UNCHANGED <<job, jres, nops>>

\* that call has ended: the caller holds the Job it returned
Acquired ==
    /\ pc = "idle" /\ op.name = "acquire" /\ outcome.kind # "none"
    /\ job' = IF outcome.kind = "return" /\ outcome.val.t = "job"
              THEN [jid |-> outcome.val.n, reserved |-> outcome.val.reserved]
              ELSE job
    /\ op' = NoOp
    /\ UNCHANGED <<connVars, jres, nops>>

\* Job.delete is called: lines 302-304
JobDelete ==
    /\ op = NoOp /\ job # NoJob /\ nops < MaxOps
    /\ Call(ConnVerb("delete", job.jid, <<>>))
    /\ op' = [name |-> "delete", pri |-> <<>>, phase |-> "cmd"]
    /\ jres' = NoOutcome /\ nops' = nops + 1 /\ UNCHANGED job

\* Job.release(priority) and Job.bury(priority) are called: lines 307-310 and
\* 313-316, up to the first call of the connection
JobReleaseOrBury(name, pri) ==
    /\ op = NoOp /\ job # NoJob /\ nops < MaxOps /\ pc = "idle"
    /\ name \in {"release", "bury"}
    /\ nops' = nops + 1 /\ UNCHANGED job
    /\ IF ~job.reserved
       THEN jres' = Return(None) /\ UNCHANGED <<connVars, op>>
       ELSE /\ jres' = NoOutcome
            /\ IF Truthy(pri)
               THEN /\ Call(ConnVerb(name, job.jid, pri))
                    /\ op' = [name |-> name, pri |-> pri, phase |-> "cmd"]
               ELSE /\ Call(ConnVerb("stats", job.jid, <<>>))
                    /\ op' = [name |-> name, pri |-> pri, phase |-> "stats"]

\* Job.touch without the test of line 321: the command is sent whatever the
\* reserved flag is, as Job.delete does
JobTouchAlwaysSends ==
    /\ op = NoOp /\ job # NoJob /\ nops < MaxOps /\ pc = "idle"
    /\ nops' = nops + 1 /\ UNCHANGED job
    /\ jres' = NoOutcome
    /\ Call(ConnVerb("touch", job.jid, <<>>))
    /\ op' = [name |-> "touch", pri |-> <<>>, phase |-> "cmd"]

\* Job.touch is called: lines 319-323
JobTouch ==
    /\ op = NoOp /\ job # NoJob /\ nops < MaxOps /\ pc = "idle"
    /\ nops' = nops + 1 /\ UNCHANGED job
    /\ IF ~job.reserved
       THEN jres' = Return(None) /\ UNCHANGED <<connVars, op>>
       ELSE /\ jres' = NoOutcome
            /\ Call(ConnVerb("touch", job.jid, <<>>))
            /\ op' = [name |-> "touch", pri |-> <<>>, phase |-> "cmd"]

\* Job._priority has its answer from stats_job: lines 295-298, then the call
\* of conn.release or conn.bury of lines 310 and 316
JobPriority ==
    /\ pc = "idle" /\ op.phase = "stats" /\ outcome.kind # "none"
    /\ IF outcome.kind = "raise"
       THEN jres' = outcome /\ op' = NoOp /\ UNCHANGED <<connVars, job, nops>>
       ELSE /\ Call(ConnVerb(op.name, job.jid, PriorityOf(outcome.val.s)))
            /\ op' = [op EXCEPT !.phase = "cmd"]
            /\ UNCHANGED <<job, jres, nops>>

\* the methods of Job with 'self.reserved = False' in a finally clause: the
\* flag is cleared also when the call of the connection raised
JobEndAlwaysClears ==
    /\ pc = "idle" /\ op.phase = "cmd" /\ op.name # "acquire"
    /\ outcome.kind # "none"
    /\ jres' = IF outcome.kind = "raise" THEN outcome ELSE Return(None)
    /\ job' = IF op.name = "touch" THEN job ELSE [job EXCEPT !.reserved = FALSE]
    /\ op' = NoOp
    /\ UNCHANGED <<connVars, nops>>

\* the call of the connection has ended: lines 305, 311 and 317
JobEnd ==
    /\ pc = "idle" /\ op.phase = "cmd" /\ op.name # "acquire"
    /\ outcome.kind # "none"
    /\ IF outcome.kind = "raise"
       THEN jres' = outcome /\ UNCHANGED job
       ELSE /\ jres' = Return(None)
            /\ job' = IF op.name = "touch" THEN job ELSE [job EXCEPT !.reserved = FALSE]
    /\ op' = NoOp
    /\ UNCHANGED <<connVars, nops>>

\* A server that holds one job, ready in the watched tube, put with priority
\* p: what it answers to the words of a command, and what the command does
\* to the job.
IsCmd(toks, word, n) ==
    /\ Len(toks) = n + 1 /\ toks[1] = word
    /\ \A i \in 2..(n + 1) : IsInt(toks[i])

Held(js, id, states) == {j \in js : j.id = id /\ j.state \in states}

\* the answer to a peek command that found the jobs 'found'
Found(found) ==
    IF found = {} THEN Line(NOT_FOUND)
    ELSE LET j == CHOOSE j \in found : TRUE
         IN Line(FOUND \o SP \o FormatInt(j.id) \o SP \o FormatInt(Len(j.body)))
               \o Line(j.body)

JobReply(toks, js) ==
    LET id == ParseInt(toks[2])
        any == Held(js, id, {"ready", "reserved", "buried"})
        mine == Held(js, id, {"reserved"})
        j == CHOOSE j \in any : TRUE
    IN CASE IsCmd(toks, W_reserve, 0) ->
              IF \E r \in js : r.state = "ready"
              THEN LET r == CHOOSE r \in js : r.state = "ready"
                   IN Line(RESERVED \o SP \o FormatInt(r.id) \o SP
                            \o FormatInt(Len(r.body))) \o Line(r.body)
              ELSE <<>>
         [] IsCmd(toks, W_peek, 1) -> Found(any)
         [] toks = <<W_peek_ready>> -> Found(Held(js, 1, {"ready"}))
         [] toks = <<W_peek_delayed>> -> Found({})
         [] toks = <<W_peek_buried>> -> Found(Held(js, 1, {"buried"}))
         [] IsCmd(toks, W_stats_job, 1) ->
              IF any = {} THEN Line(NOT_FOUND)
              ELSE Line(OK \o SP \o FormatInt(Len(StatsDoc(j.pri)))) \o Line(StatsDoc(j.pri))
         [] IsCmd(toks, W_delete, 1) ->
              IF any = {} THEN Line(NOT_FOUND) ELSE Line(DELETED)
         [] IsCmd(toks, W_release, 3) ->
              IF mine = {} THEN Line(NOT_FOUND) ELSE Line(RELEASED)
         [] IsCmd(toks, W_bury, 2) ->
              IF mine = {} THEN Line(NOT_FOUND) ELSE Line(BURIED)
         [] IsCmd(toks, W_touch, 1) ->
              IF mine = {} THEN Line(NOT_FOUND) ELSE Line(TOUCHED)
         [] OTHER -> Line(UNKNOWN_COMMAND)

JobEffect(toks, js) ==
    LET id == ParseInt(toks[2])
        mine == Held(js, id, {"reserved"})
    IN CASE IsCmd(toks, W_reserve, 0) ->
              {IF j.state = "ready" THEN [j EXCEPT !.state = "reserved"] ELSE j : j \in js}
         [] IsCmd(toks, W_delete, 1) -> {j \in js : j.id # id}
         [] IsCmd(toks, W_release, 3) ->
              (js \ mine) \cup
              {[j EXCEPT !.state = "ready", !.pri = toks[3]] : j \in mine}
         [] IsCmd(toks, W_bury, 2) ->
              (js \ mine) \cup
              {[j EXCEPT !.state = "buried", !.pri = toks[3]] : j \in mine}
         [] OTHER -> js

ServerJob ==
    /\ pc \in {"read_response", "read_body"}
    /\ UnitLen(srv_in) > 0 /\ sock = "open"
    /\ LET toks == Split(SubSeq(srv_in, 1, Find(srv_in, CRLF) - 1))
           r == JobReply(toks, jobs)
       IN /\ rx' = rx \o r /\ reply' = r
          /\ jobs' = JobEffect(toks, jobs)
    /\ srv_in' = Drop(srv_in, UnitLen(srv_in))
    /\ UNCHANGED <<jobVars, pc, verb, calls, outcome, sendVars, readVars, sock,
                   next_id, due, clocked, timeVars>>

\* SpecJob follows the caller of a Job: it gets the Job with reserve(),
\* peek(1), peek_ready(), peek_delayed() or peek_buried() on a fresh
\* connection and then calls up to MaxOps methods of it,
\* with no priority, with priority 0 and with another priority. The socket
\* takes, of what is written, nothing, one byte, all but one byte, or all.
\* The server puts the whole of an answer on the wire at once, so no recv of
\* _read_body finds the connection closed.
JobPriorities == {<<"0">>, <<"7">>}
ArgPriorities == {<<>>, <<"0">>, <<"3">>}

Acquirers ==
    {Verb("reserve", <<>>, <<>>, <<>>), Verb("peek", <<1>>, <<>>, <<>>)} \cup
    {Verb(n, <<>>, <<>>, <<>>) : n \in {"peek_ready", "peek_delayed", "peek_buried"}}

InitJob ==
    /\ InitConn /\ next_id = 2 /\ clocked = FALSE
    /\ \E p \in JobPriorities :
         jobs = {[id |-> 1, body |-> <<"a">>, pri |-> p, state |-> "ready"]}

NextJob ==
    \/ \E v \in Acquirers : Acquire(v)
    \/ Acquired
    \/ JobDelete
    \/ \E name \in {"release", "bury"}, pri \in ArgPriorities : JobReleaseOrBury(name, pri)
    \/ JobTouch
    \/ JobPriority
    \/ JobEnd
    \/ \E k \in {0, 1, Len(data)} : SendFirst(k)
    \/ SendFirstError
    \/ SendSelectTimeout
    \/ \E k \in {Len(data) - sent - 1, Len(data) - sent} : SendRetry(k)
    \/ SendRetryAgain
    \/ SendRetryError
    \/ ReadResponseTimeout
    \/ ReadResponseClosed
    \/ \E n \in 1..Len(rx) : ReadResponseChunk(n)
    \/ ReadBodyTimeout
    \/ \E n \in 1..Len(rx) : ReadBodyChunk(n)
    \/ ReadBodyReturn
    \/ ServerJob

SpecJob == InitJob /\ [][NextJob]_vars

\* SpecClose follows close() on a fresh connection.
NextClose ==
    \/ calls = 0 /\ Call(Verb("close", <<>>, <<>>, <<>>)) /\ UNCHANGED jobVars
    \/ \E k \in 0..Len(data) : SendFirst(k)
    \/ SendFirstError
    \/ SendSelectTimeout
    \/ \E k \in 0..Len(data) : SendRetry(k)
    \/ SendRetryAgain
    \/ SendRetryError

SpecClose == Init /\ [][NextClose]_vars

\* SpecBody follows one _read_body(size) from its entry to its end: peek(1)
\* has read 'FOUND 1 <size>', the buffer holds any part of what the server
\* sent after that line (less than the body, or the body and the start of
\* the next response) and the rest is on the socket.
MaxAhead == 1

InitBody ==
    \E n \in 0..MaxBody :
    \E stream \in SeqsUpTo(BodyBytes, MaxBody + 2 + MaxAhead) :
    \E k \in 0..Len(stream) :
        /\ pc = "read_body" /\ verb = Verb("peek", <<1>>, <<>>, <<>>)
        /\ calls = 1 /\ outcome = NoOutcome
        /\ data = Command(verb) /\ acc = data
        /\ sent = 0 /\ remaining = 0 /\ iters = 0
        /\ size = n /\ buf = Take(stream, k) /\ rx = Drop(stream, k)
        /\ reply = stream /\ body_in = buf /\ line_in = <<>>
        /\ resp = [set |-> TRUE, status |-> FOUND,
                   results |-> <<FormatInt(1), FormatInt(n)>>, buf |-> buf]
        /\ iact = Results(resp.results) /\ got = NoGot
        /\ sock = "open" /\ srv_in = <<>>
        /\ jobs = {} /\ next_id = 1 /\ due = -1 /\ clocked = FALSE
        /\ now = 0 /\ deadline = 0 /\ t0 = 0
        /\ job = NoJob /\ op = NoOp /\ jres = NoOutcome /\ nops = 0

NextBody ==
    \/ ReadBodyTimeout
    \/ ReadBodyClosed
    \/ \E n \in 1..Len(rx) : ReadBodyChunk(n)
    \/ ReadBodyReturn

SpecBody == InitBody /\ [][NextBody]_vars

\* ------------------------------------------------------------------ claims
TransportFailure(o) == o.kind = "raise" /\ o.exc \in {"Timeout", "ConnectionClosed"}

\* C1: once _read_response has returned a status to _interact, _interact has
\* sent the command it was given and ends in exactly one of three ways:
\* it returns the argument tokens when the status is in the success set, it
\* raises CommandFailed(verb, status, args) when the status is in the failure
\* set only, and it raises UnexpectedResponse(verb, status, args) otherwise.
C1_InteractClassifies ==
    resp.set =>
        /\ data = Command(verb) /\ acc = data
        /\ resp.status \in OkStatuses(verb) =>
                /\ iact.kind = "results" /\ iact.results = resp.results
        /\ resp.status \notin OkStatuses(verb) /\ resp.status \in ErrStatuses(verb) =>
                /\ iact.kind = "raise" /\ iact.exc = "CommandFailed"
                /\ <<iact.verb, iact.status, iact.results>>
                        = <<Split(Command(verb))[1], resp.status, resp.results>>
        /\ resp.status \notin (OkStatuses(verb) \cup ErrStatuses(verb)) =>
                /\ iact.kind = "raise" /\ iact.exc = "UnexpectedResponse"
                /\ <<iact.verb, iact.status, iact.results>>
                        = <<Split(Command(verb))[1], resp.status, resp.results>>

\* C1's case: a status of the failure set has been read and classified
C1_Witness ==
    /\ resp.set /\ resp.status = JOB_TOO_BIG /\ verb.name = "put"
    /\ iact.exc = "CommandFailed"

\* C3: whenever _read_response has returned, the bytes it worked on held a
\* terminator, the status and arguments it returned are the tokens of the
\* bytes before the first terminator, and the buffer holds the bytes after it.
C3_LineIsTerminated ==
    resp.set =>
        LET i == Find(line_in, CRLF)
        IN /\ i > 0
           /\ <<resp.status>> \o resp.results = Split(SubSeq(line_in, 1, i - 1))
           /\ resp.buf = SubSeq(line_in, i + 2, Len(line_in))

\* C5: when _sendall has returned without raising, the socket has accepted
\* exactly the bytes of data, each once and in order.
C5_SendallSendsAll ==
    pc \in {"read_response", "read_body"} => acc = data

\* C7: a step in which a select times out or a recv returns no bytes ends the
\* public method with that failure raised, whatever the method is, and takes
\* no byte from the socket and gives none to it.
C7_TransportFailurePropagates ==
    [][ /\ (SendSelectTimeout \/ ReadResponseTimeout \/ ReadBodyTimeout) =>
            /\ pc' = "idle" /\ outcome' = Raise("Timeout")
            /\ acc' = acc /\ srv_in' = srv_in /\ rx' = rx /\ buf' = buf
        /\ (ReadResponseClosed \/ ReadBodyClosed) =>
            /\ pc' = "idle" /\ outcome' = Raise("ConnectionClosed")
            /\ acc' = acc /\ srv_in' = srv_in /\ rx' = rx /\ buf' = buf
      ]_vars

\* C7's case: a peek whose body read timed out after the FOUND line was read
C7_Witness ==
    /\ pc = "idle" /\ IsPeek(verb) /\ resp.set /\ resp.status = FOUND
    /\ outcome = Raise("Timeout")

\* C4: when _read_body(size) has returned, what it returned is the first size
\* bytes of the buffer and the stream taken together, the buffer has lost
\* those and the two bytes after them, and the buffer followed by what is
\* still on the socket is the rest of the stream, in order.
C4_ReadBodyExact ==
    got.set =>
        /\ Len(got.body) = size
        /\ got.body = Take(reply, size)
        /\ got.buf \o rx = Drop(reply, size + 2)
        /\ got.body = Take(body_in, size) /\ got.buf = Drop(body_in, size + 2)
        /\ Len(body_in) >= size + 2
        /\ outcome = Return(Job(1, got.body, FALSE))

\* C4's case: the buffer held less than the body at the entry, the body
\* with a terminator inside it was put together from reads, and a byte of
\* the next response is still on the socket
C4_Witness ==
    /\ got.set /\ size = 2 /\ Len(resp.buf) < size /\ got.body = CRLF
    /\ rx # <<>>

\* C4's other case: the buffer already held the body, its terminator and a
\* byte of the next response, which stays in the buffer
C4_WitnessBuffered ==
    /\ got.set /\ size = 2 /\ got.buf # <<>> /\ resp.buf = reply

\* the header tokens of a reply, the body that follows its header line, and
\* whether the whole of the declared body and its terminator is there
ReplyHeader(r) == Split(SubSeq(r, 1, Find(r, CRLF) - 1))
ReplyBody(r, n) == SubSeq(r, Find(r, CRLF) + 2, Find(r, CRLF) + 1 + n)
ReplyHasJob(r) ==
    /\ Len(ReplyHeader(r)) = 3
    /\ Len(r) = Find(r, CRLF) + 1 + ParseInt(ReplyHeader(r)[3]) + 2

\* the public method has ended and the server had answered it
Answered == pc = "idle" /\ outcome.kind # "none" /\ reply # <<>>

\* C2: a put that ends on the server's answer returns the id the server gave
\* the job, and the peek of that id that ends on the server's answer returns
\* Job(id, B, reserved = FALSE) for the body B the server was given, however
\* the bytes of the answers arrive.
C2_PutThenPeek ==
    (Answered /\ ~TransportFailure(outcome)) =>
        /\ calls = 1 =>
            \E j \in jobs : j.body = verb.body /\ outcome = Return(IntVal(j.id))
        /\ calls = 2 =>
            \E j \in jobs : outcome = Return(Job(j.id, j.body, FALSE))

\* C6 (as claimed): when the status read is in the failure set of the verb,
\* every verb but peek* and ignore raises; peek* returns None on NOT_FOUND
\* and ignore returns 1 on NOT_IGNORED.
C6_OnlyPeekAndIgnoreSwallow ==
    (pc = "idle" /\ resp.set /\ resp.status \in ErrStatuses(verb)) =>
        IF IsPeek(verb) THEN outcome = Return(None)
        ELSE IF verb.name = "ignore" THEN outcome = Return(IntVal(1))
        ELSE outcome.kind = "raise"

\* C6 (amended): when the status read is in the failure set of the verb,
\* peek* returns None, ignore returns 1, reserve returns None on TIMED_OUT
\* and raises DeadlineSoon(args) on DEADLINE_SOON, and every other verb
\* raises CommandFailed with that status.
C6_FailureStatusOutcome ==
    (pc = "idle" /\ resp.set /\ resp.status \in ErrStatuses(verb)) =>
        IF IsPeek(verb) THEN outcome = Return(None)
        ELSE IF verb.name = "ignore" THEN outcome = Return(IntVal(1))
        ELSE IF verb.name = "reserve"
        THEN IF resp.status = TIMED_OUT THEN outcome = Return(None)
             ELSE /\ outcome.kind = "raise" /\ outcome.exc = "DeadlineSoon"
                  /\ outcome.results = resp.results
        ELSE /\ outcome.kind = "raise" /\ outcome.exc = "CommandFailed"
             /\ outcome.status = resp.status /\ outcome.results = resp.results

\* C6's case: delete has read NOT_FOUND and raised
C6_Witness ==
    /\ pc = "idle" /\ verb.name = "delete" /\ resp.set /\ resp.status = NOT_FOUND
    /\ outcome.kind = "raise" /\ outcome.exc = "CommandFailed"

\* C8: reserve sends 'reserve-with-timeout <t>' when a timeout is given and
\* 'reserve' when none is, and when it ends on the server's answer it returns
\* Job(id, body, reserved = TRUE) for RESERVED <id> <size> and the body, None
\* for TIMED_OUT, and raises DeadlineSoon for DEADLINE_SOON and
\* UnexpectedResponse for any other status.
C8_ReserveMapsReply ==
    (Answered /\ verb.name = "reserve" /\ ~TransportFailure(outcome)) =>
        /\ data = IF verb.args = <<>> THEN W_reserve \o CRLF
                  ELSE W_reserve_with_timeout \o SP \o FormatInt(verb.args[1]) \o CRLF
        /\ LET h == ReplyHeader(reply)
           IN CASE h[1] = RESERVED ->
                     ReplyHasJob(reply) =>
                        outcome = Return(Job(ParseInt(h[2]),
                                             ReplyBody(reply, ParseInt(h[3])), TRUE))
                [] h[1] = TIMED_OUT -> outcome = Return(None)
                [] h[1] = DEADLINE_SOON ->
                     outcome.kind = "raise" /\ outcome.exc = "DeadlineSoon"
                [] OTHER ->
                     outcome.kind = "raise" /\ outcome.exc = "UnexpectedResponse"

\* C9: reserve(timeout = t) on a connection to a server whose tubes are
\* empty ends returning None, not before t time units have passed since the
\* call and not after t and the connection's timeout have.
C9_ReserveTimesOut ==
    (pc = "idle" /\ calls = 1 /\ verb.name = "reserve" /\ verb.args # <<>>) =>
        /\ outcome = Return(None)
        /\ now - t0 >= verb.args[1]
        /\ now - t0 <= verb.args[1] + timeout

\* C10: a peek* that ends on the server's answer returns None for NOT_FOUND,
\* Job(id, body, reserved = FALSE) for FOUND <id> <size> and the body, and
\* raises for every other reply; it returns None for NOT_FOUND only.
C10_PeekMapsReply ==
    (Answered /\ IsPeek(verb) /\ ~TransportFailure(outcome)) =>
        LET h == ReplyHeader(reply)
        IN /\ CASE h[1] = NOT_FOUND -> outcome = Return(None)
                [] h[1] = FOUND ->
                     ReplyHasJob(reply) =>
                        outcome = Return(Job(ParseInt(h[2]),
                                             ReplyBody(reply, ParseInt(h[3])), FALSE))
                [] OTHER -> outcome.kind = "raise"
           /\ outcome = Return(None) => h[1] = NOT_FOUND

\* C11: an ignore that ends on the server's answer returns 1 when the answer
\* is NOT_IGNORED and n when the answer is WATCHING <n>.
C11_IgnoreMapsReply ==
    (Answered /\ verb.name = "ignore" /\ ~TransportFailure(outcome)) =>
        LET h == ReplyHeader(reply)
        IN /\ h[1] = NOT_IGNORED => outcome = Return(IntVal(1))
           /\ (h[1] = WATCHING /\ Len(h) = 2 /\ IsInt(h[2])) =>
                    outcome = Return(IntVal(ParseInt(h[2])))

\* C12: Job.delete sends 'delete <jid>' whatever the reserved flag of the Job
\* is, and a delete that ends on the server's answer NOT_FOUND, which is the
\* answer for a job the server does not hold, the second of two deletes
\* included, raises CommandFailed with the status NOT_FOUND.
C12_DeleteNotIdempotent ==
    /\ op.name = "delete" =>
            /\ verb = ConnVerb("delete", job.jid, <<>>)
            /\ data = Line(W_delete \o SP \o FormatInt(job.jid))
    /\ (Answered /\ verb.name = "delete" /\ ~TransportFailure(outcome)
            /\ ReplyHeader(reply)[1] = NOT_FOUND) =>
            /\ outcome.kind = "raise" /\ outcome.exc = "CommandFailed"
            /\ outcome.status = NOT_FOUND

\* C13: the reserved flag of a Job changes only from true to false, and only
\* in the step that ends Job.delete, Job.release or Job.bury after the call
\* of the connection read a success status and returned; a method of the
\* Job that ends with an exception leaves the flag as it was, and after
\* delete, release or bury has returned normally the flag is false.
C13_ReservedFlag ==
    [][ /\ job'.reserved # job.reserved =>
            \/ job = NoJob /\ op.name = "acquire"
            \/ /\ job.reserved /\ ~job'.reserved
               /\ op.name \in {"delete", "release", "bury"} /\ op.phase = "cmd"
               /\ verb.name = op.name
               /\ resp.set /\ resp.status \in OkStatuses(verb)
               /\ outcome.kind = "return" /\ jres' = Return(None)
        /\ (jres' # jres /\ jres'.kind = "raise") => job' = job
        /\ (jres' # jres /\ jres'.kind = "return") =>
            \/ nops' = nops + 1 /\ ~job.reserved /\ job' = job
            \/ op.name = "touch" /\ job' = job
            \/ op.name \in {"delete", "release", "bury"} /\ ~job'.reserved
      ]_vars

\* C13's case: release, with the priority read by stats-job, has returned
\* and the flag of the reserved Job is false
C13_Witness ==
    /\ jres = Return(None) /\ verb.name = "release" /\ resp.status = RELEASED
    /\ job = [jid |-> 1, reserved |-> FALSE] /\ nops = 1

\* C14: the release or bury command that Job.release or Job.bury sends when
\* it was given no priority carries the priority the server holds for the
\* job, so the job keeps the priority it was put with.
C14_KeepsPriority ==
    (op.name \in {"release", "bury"} /\ op.pri = <<>> /\ op.phase = "cmd") =>
        /\ verb.name = op.name
        /\ \A j \in jobs : j.id = job.jid => verb.pri = j.pri

\* C15: when close() has ended it has returned, not raised, and the socket
\* is closed.
C15_CloseCloses ==
    (pc = "idle" /\ verb.name = "close" /\ outcome.kind # "none") =>
        /\ outcome.kind = "return"
        /\ sock = "closed"

\* the complete commands at the front of s
RECURSIVE CountUnits(_)
CountUnits(s) == IF UnitLen(s) = 0 THEN 0 ELSE 1 + CountUnits(Drop(s, UnitLen(s)))

\* commands the server has received and not answered yet, and one more when
\* bytes of an answer are still on the socket or in the buffer
Outstanding == CountUnits(srv_in) + (IF rx \o buf # <<>> THEN 1 ELSE 0)

\* C16: in every state of every sequence of methods called one at a time,
\* at most one command that was sent is without an answer the client has
\* consumed.
C16_OneOutstanding == Outstanding <= 1

\* C17: while _read_body runs, the buffer is what it held at the entry
\* followed by every byte received since; and when a method that the server
\* answered with one response has returned normally, every byte of that
\* response has been consumed: none is left on the socket or in the buffer,
\* so the next status line starts at the first byte of the next response.
C17_FramingInSync ==
    /\ pc = "read_body" => buf = body_in
    /\ (Answered /\ outcome.kind = "return") => (rx = <<>> /\ buf = <<>>)

\* C18: _sendall is outside its loop as soon as the socket has accepted all
\* of data: whenever it is in the loop, about to wait and write again, a
\* byte of data is still to be accepted.
C18_SendallStopsWhenDone ==
    pc = "sendloop" => (sent < Len(data) /\ acc # data)

\* C19: while Job.release(priority = p) or Job.bury(priority = p) runs on a
\* reserved Job, p = 0 included, the call of the connection it makes is
\* release or bury with the priority p, and never stats_job.
C19_ExplicitPriority ==
    (op.name \in {"release", "bury"} /\ op.pri # <<>>) =>
        /\ op.phase = "cmd"
        /\ verb.name = op.name /\ verb.pri = op.pri
        /\ data = Command(ConnVerb(op.name, job.jid, op.pri))

\* C20: the Job that reserve returns carries reserved = true and the Job
\* that peek, peek_ready, peek_delayed or peek_buried returns carries
\* reserved = false; Job.release, Job.bury and Job.touch called on a Job
\* whose flag is false send nothing, return None and leave the Job, the
\* buffer and the rest of the connection as they were.
C20_UnreservedNoOp ==
    [][ /\ (op.name = "acquire" /\ job' # job) =>
            /\ verb.name = "reserve" \/ IsPeek(verb)
            /\ job'.reserved = (verb.name = "reserve")
        /\ (nops' = nops + 1 /\ ~job.reserved /\ op'.name # "delete") =>
            /\ UNCHANGED <<connVars, job, op>>
            /\ jres' = Return(None)
      ]_vars

\* C20's case: Job.bury(3) on the reserved Job was answered BURIED, and the
\* method called on the same Job after it made no call of the connection
C20_Witness ==
    /\ nops = 2 /\ calls = 2 /\ op = NoOp
    /\ verb = ConnVerb("bury", 1, <<"3">>) /\ resp.status = BURIED
    /\ srv_in = <<>> /\ rx = <<>>
    /\ job = [jid |-> 1, reserved |-> FALSE] /\ jres = Return(None)

====
